---------------------------- MODULE Spec2Model ----------------------------
(***************************************************************************)
(* A model of the state-evolution core of qbyte_miner.py: the organism     *)
(* registry (OrganismLoader), the evolution engine (CCCEEngine), the       *)
(* population normalizer and the platform driver (UnifiedPlatform).        *)
(*                                                                         *)
(* Python floats are modelled as exact rational numbers (plus +infinity),  *)
(* i.e. with real-number semantics; rounding of IEEE doubles is not        *)
(* modelled.  Because the constants of the program need more than 32 bits  *)
(* (LAMBDA_PHI = 2176435 / 10^14), numerators and denominators are         *)
(* arbitrary-precision naturals kept as little-endian sequences of limbs.  *)
(***************************************************************************)
EXTENDS Integers, Sequences, FiniteSets, TLC

(***************************************************************************)
(* Arbitrary-precision naturals: <<l1, ..., lk>> is l1 + l2*Base + ...,    *)
(* every limb in 0..Base-1, the last limb non-zero; <<>> is zero.  Three   *)
(* limbs fit a machine integer, which the short cuts below rely on.        *)
(***************************************************************************)
Base == 10 * 100

\* Op(v), with v evaluated before Op is entered
Then(v, Op(_)) == CHOOSE r \in {Op(x) : x \in {v}} : TRUE

RECURSIVE NTrim(_)
NTrim(a) ==
    IF a = <<>> THEN <<>>
    ELSE IF a[Len(a)] = 0 THEN NTrim(SubSeq(a, 1, Len(a) - 1))
    ELSE a

RECURSIVE NOfInt(_)
NOfInt(k) == IF k = 0 THEN <<>> ELSE <<k % Base>> \o NOfInt(k \div Base)

\* the machine integer of a natural of at most three limbs
NSmall(a) ==
    IF Len(a) = 0 THEN 0
    ELSE IF Len(a) = 1 THEN a[1]
    ELSE IF Len(a) = 2 THEN a[1] + Base * a[2]
    ELSE a[1] + Base * (a[2] + Base * a[3])

RECURSIVE NCmpFrom(_, _, _)
NCmpFrom(a, b, k) ==
    IF k = 0 THEN 0
    ELSE IF a[k] < b[k] THEN -1
    ELSE IF a[k] > b[k] THEN 1
    ELSE NCmpFrom(a, b, k - 1)

\* -1, 0 or 1 as a < b, a = b or a > b
NCmp(a, b) ==
    IF Len(a) < Len(b) THEN -1
    ELSE IF Len(a) > Len(b) THEN 1
    ELSE NCmpFrom(a, b, Len(a))

RECURSIVE NAddC(_, _, _)
NAddC(a, b, c) ==
    IF a = <<>> /\ b = <<>> THEN (IF c = 0 THEN <<>> ELSE <<c>>)
    ELSE IF a = <<>> THEN <<(b[1] + c) % Base>> \o NAddC(a, Tail(b), (b[1] + c) \div Base)
    ELSE IF b = <<>> THEN <<(a[1] + c) % Base>> \o NAddC(Tail(a), b, (a[1] + c) \div Base)
    ELSE <<(a[1] + b[1] + c) % Base>>
         \o NAddC(Tail(a), Tail(b), (a[1] + b[1] + c) \div Base)

NAdd(a, b) == NAddC(a, b, 0)

RECURSIVE NSubB(_, _, _)
NSubB(a, b, c) ==
    IF a = <<>> THEN <<>>
    ELSE IF b = <<>>
    THEN <<(a[1] - c + Base) % Base>>
         \o NSubB(Tail(a), b, IF a[1] - c < 0 THEN 1 ELSE 0)
    ELSE <<(a[1] - b[1] - c + Base) % Base>>
         \o NSubB(Tail(a), Tail(b), IF a[1] - b[1] - c < 0 THEN 1 ELSE 0)

\* a - b, for a >= b
NSub(a, b) == NTrim(NSubB(a, b, 0))

RECURSIVE NMulLimb(_, _, _)
NMulLimb(a, k, c) ==
    IF a = <<>> THEN (IF c = 0 THEN <<>> ELSE <<c>>)
    ELSE <<(a[1] * k + c) % Base>> \o NMulLimb(Tail(a), k, (a[1] * k + c) \div Base)

\* a * k for a limb k
NTimes(a, k) == IF k = 0 THEN <<>> ELSE NMulLimb(a, k, 0)

\* a * Base
NShift(a) == IF a = <<>> THEN <<>> ELSE <<0>> \o a

RECURSIVE NMulLong(_, _)
NMulLong(a, b) ==
    IF b = <<>> THEN <<>>
    ELSE NAdd(NTimes(a, b[1]), NShift(NMulLong(a, Tail(b))))

NMul(a, b) ==
    IF a = <<>> \/ b = <<>> THEN <<>>
    ELSE IF Len(a) + Len(b) <= 3 THEN NOfInt(NSmall(a) * NSmall(b))
    ELSE NMulLong(a, b)

\* the largest q in lo..hi with q * b <= r, by bisection
RECURSIVE NDigit(_, _, _, _)
NDigit(r, b, lo, hi) ==
    IF lo >= hi THEN lo
    ELSE IF NCmp(NTimes(b, (lo + hi + 1) \div 2), r) <= 0
    THEN NDigit(r, b, (lo + hi + 1) \div 2, hi)
    ELSE NDigit(r, b, lo, (lo + hi + 1) \div 2 - 1)

\* r \div Base^(Len(b) - 2): the limbs of r that face the two leading limbs
\* of b, for Len(b) >= 2 and r < b * Base
NLead(r, b) == NSmall(SubSeq(r, Len(b) - 1, Len(r)))

Min(x, y) == IF x < y THEN x ELSE y

\* the quotient limb r \div b, for r < b * Base: exact for short operands,
\* else bracketed by the leading limbs and settled by bisection
NQuot(r, b) ==
    IF NCmp(r, b) < 0 THEN 0
    ELSE IF Len(r) <= 3 THEN NSmall(r) \div NSmall(b)
    ELSE NDigit(r, b,
                NLead(r, b) \div (NSmall(SubSeq(b, Len(b) - 1, Len(b))) + 1),
                Min(Base - 1,
                    (NLead(r, b) + 1) \div NSmall(SubSeq(b, Len(b) - 1, Len(b)))))

\* one step of long division: qr is <<quotient, remainder>> so far, limb
\* the next limb of the dividend
NDivStep(qr, limb, b) ==
    Then(NTrim(<<limb>> \o qr[2]), LAMBDA r :
    Then(NQuot(r, b), LAMBDA digit :
    <<NTrim(<<digit>> \o qr[1]), NSub(r, NTimes(b, digit))>>))

\* long division: <<quotient, remainder>> by b of the number made of the
\* k most significant limbs of a
RECURSIVE NDivTop(_, _, _)
NDivTop(a, b, k) ==
    IF k = 0 THEN <<(<<>>), (<<>>)>>
    ELSE Then(NDivTop(a, b, k - 1), LAMBDA qr : NDivStep(qr, a[Len(a) - k + 1], b))

\* <<quotient, remainder>> of a by b, b > 0
NDivMod(a, b) ==
    IF Len(a) <= 3 /\ Len(b) <= 3
    THEN <<NOfInt(NSmall(a) \div NSmall(b)), NOfInt(NSmall(a) % NSmall(b))>>
    ELSE NDivTop(a, b, Len(a))

RECURSIVE NGcd(_, _)
NGcd(a, b) == IF b = <<>> THEN a ELSE NGcd(b, NDivMod(a, b)[2])

(***************************************************************************)
(* Floats as rationals: [s |-> sign, n |-> numerator, d |-> denominator],  *)
(* in lowest terms, so that equal values are equal records.  float('inf')  *)
(* is the record with denominator zero.                                    *)
(***************************************************************************)
RZero == [s |-> 0, n |-> <<>>, d |-> <<1>>]
RInf  == [s |-> 1, n |-> <<1>>, d |-> <<>>]

RReduce(sign, n, d, g) ==
    [s |-> sign, n |-> NDivMod(n, g)[1], d |-> NDivMod(d, g)[1]]

\* the rational sign * n / d in lowest terms (d > 0)
RMake(sign, n, d) ==
    IF n = <<>> \/ sign = 0 THEN RZero ELSE RReduce(sign, n, d, NGcd(n, d))

\* p / q for machine integers p >= 0 and q > 0
R(p, q) == RMake(1, NOfInt(p), NOfInt(q))

RNeg(a) == [a EXCEPT !.s = -a.s]
RAbs(a) == [a EXCEPT !.s = IF a.s = 0 THEN 0 ELSE 1]

\* sign of a - b for finite a and b
RCmp(a, b) ==
    IF a.s # b.s THEN (IF a.s < b.s THEN -1 ELSE 1)
    ELSE IF a.s = 0 THEN 0
    ELSE a.s * NCmp(NMul(a.n, b.d), NMul(b.n, a.d))

RLt(a, b) ==
    IF b = RInf THEN a # RInf ELSE IF a = RInf THEN FALSE ELSE RCmp(a, b) < 0
RGt(a, b) == RLt(b, a)
RLe(a, b) == ~RLt(b, a)
RGe(a, b) == ~RLt(a, b)

\* sa * x + sb * y as <<sign, magnitude>>
NSigned(sa, x, sb, y) ==
    IF sa = sb THEN <<sa, NAdd(x, y)>>
    ELSE IF NCmp(x, y) = 0 THEN <<0, (<<>>)>>
    ELSE IF NCmp(x, y) > 0 THEN <<sa, NSub(x, y)>>
    ELSE <<sb, NSub(y, x)>>

NQ(a, b) == NDivMod(a, b)[1]

\* (t / g) / (ad / g * bd), for g = gcd(ad, bd) and t the signed numerator
\* over the least common denominator: only gcd(t, g) is left to cancel
RSum(t, g, ad, bd) ==
    IF t[1] = 0 THEN RZero
    ELSE Then(NGcd(t[2], g), LAMBDA g2 :
         [s |-> t[1], n |-> NQ(t[2], g2), d |-> NMul(NQ(ad, g), NQ(bd, g2))])

RAdd(a, b) ==
    IF a = RInf \/ b = RInf THEN RInf
    ELSE IF a.s = 0 THEN b
    ELSE IF b.s = 0 THEN a
    ELSE Then(NGcd(a.d, b.d), LAMBDA g :
         Then(NSigned(a.s, NMul(a.n, NQ(b.d, g)), b.s, NMul(b.n, NQ(a.d, g))),
              LAMBDA t : RSum(t, g, a.d, b.d)))

RSub(a, b) == RAdd(a, RNeg(b))

\* (an / ad) * (bn / bd) for operands in lowest terms: the common factors
\* are those of an with bd and of bn with ad
RCross(sign, an, ad, bn, bd) ==
    Then(NGcd(an, bd), LAMBDA g1 :
    Then(NGcd(bn, ad), LAMBDA g2 :
    [s |-> sign, n |-> NMul(NQ(an, g1), NQ(bn, g2)),
                 d |-> NMul(NQ(ad, g2), NQ(bd, g1))]))

RMul(a, b) ==
    IF a.s = 0 \/ b.s = 0 THEN RZero
    ELSE RCross(a.s * b.s, a.n, a.d, b.n, b.d)

\* a / b for finite a and b # 0; inf / b = inf for b > 0
RDiv(a, b) ==
    IF a = RInf THEN RInf
    ELSE IF a.s = 0 THEN RZero
    ELSE RCross(a.s * b.s, a.n, a.d, b.d, b.n)

RMax(a, b) == IF RLt(a, b) THEN b ELSE a


(***************************************************************************)
(* Bounds of the model.                                                    *)
(***************************************************************************)
MaxIter    == 2   \* evolve_ecosystem(iterations) is called with 0..MaxIter
MaxEvolves == 1   \* calls of evolve_ecosystem in one run
MaxLoads   == 1   \* calls of load_organisms in one run
MaxFiles   == 2   \* .dna files the glob of one load_organisms call yields

(***************************************************************************)
(* Program constants (lines 41-45) and the literals of the update rules.   *)
(***************************************************************************)
One        == R(1, 1)
Two        == R(2, 1)
Tenth      == R(1, 10)        \* 0.1
Hundredth  == R(1, 100)       \* 0.01
Thousandth == R(1, 1000)      \* 0.001
NineTenths == R(9, 10)        \* 0.9
Million    == R(1000000, 1)   \* 1e6
Ten7       == R(10000000, 1)  \* 1e7

LAMBDA_PHI    == RDiv(R(2176435, 1), RMul(Ten7, Ten7))   \* 2.176435e-8
PHI_THRESHOLD == R(76901, 10000)
THETA_LOCK    == R(51843, 1000)
COHERENCE_MIN == R(97, 100)
\* 1e-10, the floor of compute_xi and phase_conjugate_correction
Eps10 == RDiv(One, RMul(R(100000, 1), R(100000, 1)))
\* dt = 0.1, the default of evolve_step, which evolve_ecosystem relies on
DefaultDt == Tenth

(***************************************************************************)
(* Data structures.                                                        *)
(***************************************************************************)
\* CRSM6D(): all six components 0.0.  The component phi is always
\* sin(a) * k for an argument a and a factor k; it is kept as that term,
\* [sin_of |-> a, times |-> k], since sin has no rational value.
CRSM6D ==
    [x |-> RZero, y |-> RZero, z |-> RZero, t |-> RZero,
     phi |-> [sin_of |-> RZero, times |-> RZero], sigma |-> RZero]

\* CCCEState(): the dataclass defaults; xi_val starts at 0.0, not computed
CCCEState ==
    [lambda_val |-> R(97, 100), phi_val |-> R(76901, 10000),
     gamma_val |-> R(1, 1000), xi_val |-> RZero, theta_val |-> R(51843, 1000)]

\* CCCEState.compute_xi: stores (and returns) the metric
CCCEState_compute_xi(c) ==
    IF RLt(c.gamma_val, Eps10)
    THEN [c EXCEPT !.xi_val = RInf]
    ELSE [c EXCEPT !.xi_val = RDiv(RMul(c.lambda_val, c.phi_val), c.gamma_val)]

\* CCCEState.is_stable
is_stable(c) ==
    /\ RGt(c.xi_val, Tenth)
    /\ RLt(RAbs(RSub(c.theta_val, THETA_LOCK)), Hundredth)

\* the defaults of the dataclass OrganismState
OrganismDefaults ==
    [organism_id |-> "", genesis_hash |-> "",
     generation |-> 0, crsm |-> CRSM6D, ccce |-> CCCEState,
     coherence |-> R(97, 100), entropy |-> R(3, 100),
     consciousness_phi |-> R(76901, 10000), qbytes |-> RZero,
     status |-> "INITIALIZING"]

\* OrganismState(organism_id=..., genesis_hash=..., generation=0)
OrganismState(organism_id, genesis_hash) ==
    [OrganismDefaults EXCEPT !.organism_id = organism_id,
                             !.genesis_hash = genesis_hash]

(***************************************************************************)
(* CCCEEngine.                                                             *)
(***************************************************************************)
\* CCCEEngine.compute_xi, the pure function
compute_xi(lambda_val, phi_val, gamma_val) ==
    IF RLt(gamma_val, Eps10) THEN RInf
    ELSE RDiv(RMul(lambda_val, phi_val), gamma_val)

\* a variant of phase_conjugate_correction that does not count the call
phase_conjugate_correction_Uncounted(error) ==
    IF RLt(RAbs(error), Eps10) THEN [value |-> RZero, counted |-> 0]
    ELSE [value |-> IF error # RZero THEN RSub(error, RDiv(One, error)) ELSE RZero,
          counted |-> 0]

\* CCCEEngine.phase_conjugate_correction: the returned value and by how
\* much self.corrections grows
phase_conjugate_correction(error) ==
    IF RLt(RAbs(error), Eps10) THEN [value |-> RZero, counted |-> 0]
    ELSE [value |-> IF error # RZero THEN RSub(error, RDiv(One, error)) ELSE RZero,
          counted |-> 1]

\* a variant of O_Fractal without the floor: consciousness_phi = phi_new
O_Fractal_NoFloor(o) ==
    [o EXCEPT !.consciousness_phi =
        RSub(RMul(LAMBDA_PHI, o.consciousness_phi), RMul(o.entropy, Hundredth))]

\* evolve_step, "O_Fractal: Contraction mapping"
O_Fractal(o) ==
    [o EXCEPT !.consciousness_phi =
        RMax(RZero, RSub(RMul(LAMBDA_PHI, o.consciousness_phi),
                         RMul(o.entropy, Hundredth)))]

\* evolve_step, "O_CRSM: Geometric coherence"
O_CRSM(o, dt) ==
    [o EXCEPT
       !.crsm.t = RAdd(o.crsm.t, dt),
       !.crsm.phi = [sin_of |-> RMul(RMul(RAdd(o.crsm.t, dt), LAMBDA_PHI), Million),
                     times |-> PHI_THRESHOLD],
       !.crsm.sigma = RAdd(o.crsm.sigma, RMul(o.entropy, Thousandth))]

\* evolve_step, "O_QPU: Hardware optimization"
O_QPU(o) ==
    [o EXCEPT !.ccce.theta_val =
        RSub(o.ccce.theta_val, RMul(RSub(o.ccce.theta_val, THETA_LOCK), Tenth))]

\* a variant of O_H that advances the generation only when the entropy
\* correction is due
O_H_Gated(o) ==
    IF RGt(o.entropy, Tenth) THEN [o EXCEPT !.generation = o.generation + 1] ELSE o

\* evolve_step, "O_H: Hamiltonian closure"
O_H(o) == [o EXCEPT !.generation = o.generation + 1]

\* entropy = abs(c.value), self.corrections grown by the call that made c
Corrected(st, c) ==
    [organism |-> [st.organism EXCEPT !.entropy = RAbs(c.value)],
     corrections |-> st.corrections + c.counted]

\* a variant of PhaseConjugate whose gate is entropy >= 0.1
PhaseConjugate_AtThreshold(st) ==
    IF RGe(st.organism.entropy, Tenth)
    THEN Corrected(st, phase_conjugate_correction(st.organism.entropy))
    ELSE st

\* a variant of PhaseConjugate whose gate is entropy > 0.01
PhaseConjugate_LowGate(st) ==
    IF RGt(st.organism.entropy, Hundredth)
    THEN Corrected(st, phase_conjugate_correction(st.organism.entropy))
    ELSE st

\* a variant of PhaseConjugate that reads the engine's counter: the
\* correction is applied only while no correction has been counted
PhaseConjugate_FirstOnly(st) ==
    IF RGt(st.organism.entropy, Tenth) /\ st.corrections = 0
    THEN Corrected(st, phase_conjugate_correction(st.organism.entropy))
    ELSE st

\* evolve_step, "Phase conjugate correction"; st is the organism together
\* with the engine's self.corrections
PhaseConjugate(st) ==
    IF RGt(st.organism.entropy, Tenth)
    THEN Corrected(st, phase_conjugate_correction(st.organism.entropy))
    ELSE st

\* a variant of UpdateCCCE whose first assignment runs the other way:
\* organism.coherence = organism.ccce.lambda_val
UpdateCCCE_Reversed(o) ==
    [o EXCEPT !.coherence = o.ccce.lambda_val,
              !.ccce = CCCEState_compute_xi([o.ccce EXCEPT
                                               !.phi_val = o.consciousness_phi,
                                               !.gamma_val = o.entropy])]

\* a variant of UpdateCCCE that leaves out the second assignment,
\* organism.ccce.phi_val = organism.consciousness_phi
UpdateCCCE_NoPhi(o) ==
    [o EXCEPT !.ccce =
        CCCEState_compute_xi([o.ccce EXCEPT !.lambda_val = o.coherence,
                                            !.gamma_val = o.entropy])]

\* evolve_step, "Update CCCE state"
UpdateCCCE(o) ==
    [o EXCEPT !.ccce =
        CCCEState_compute_xi([o.ccce EXCEPT !.lambda_val = o.coherence,
                                            !.phi_val = o.consciousness_phi,
                                            !.gamma_val = o.entropy])]

\* a variant of MineQBytes whose gate is coherence >= 0.9
MineQBytes_AtThreshold(o) ==
    IF RGe(o.coherence, NineTenths)
    THEN [o EXCEPT !.qbytes = RAdd(o.qbytes, RMul(RMul(o.coherence, LAMBDA_PHI), Ten7))]
    ELSE o

\* evolve_step, "Mine qBytes if coherence is high"
MineQBytes(o) ==
    IF RGt(o.coherence, NineTenths)
    THEN [o EXCEPT !.qbytes = RAdd(o.qbytes, RMul(RMul(o.coherence, LAMBDA_PHI), Ten7))]
    ELSE o

\* CCCEEngine.evolve_step: [organism, corrections] after the step, the
\* statement groups applied in the order of the code
evolve_step(corrections_before, organism, dt) ==
    Then(O_Fractal(organism), LAMBDA o1 :
    Then(O_CRSM(o1, dt), LAMBDA o2 :
    Then(O_QPU(o2), LAMBDA o3 :
    Then(O_H(o3), LAMBDA o4 :
    Then(PhaseConjugate([organism |-> o4, corrections |-> corrections_before]),
         LAMBDA st :
    Then(UpdateCCCE(st.organism), LAMBDA o6 :
    [organism |-> MineQBytes(o6), corrections |-> st.corrections]))))))

(***************************************************************************)
(* The organisms directory.  A directory entry the glob yields is readable *)
(* ("ok"), gone by the time load_organism tests exists() ("missing"), or   *)
(* makes read_text raise ("unreadable": a directory named *.dna, bytes     *)
(* that are not text, no permission).  Files a and c hold the same text.   *)
(***************************************************************************)
Files ==
    { [name |-> "a", kind |-> "ok", content |-> "ORGANISM alpha"],
      [name |-> "b", kind |-> "ok", content |-> "ORGANISM beta"],
      [name |-> "c", kind |-> "ok", content |-> "ORGANISM alpha"],
      [name |-> "d", kind |-> "missing", content |-> ""],
      [name |-> "e", kind |-> "unreadable", content |-> ""] }

\* the listings one glob can yield: up to MaxFiles entries, names distinct
Listings ==
    UNION { { f \in [1..n -> Files] :
                \A j, k \in 1..n : j # k => f[j].name # f[k].name } :
            n \in 0..MaxFiles }

\* hashlib.sha256(content.encode()).hexdigest()[:16] of the texts above
Sha256Hex16 ==
    [c \in {"ORGANISM alpha", "ORGANISM beta"} |->
        IF c = "ORGANISM alpha" THEN "4d6b3dd87e43d10a" ELSE "36814243ed4339e7"]

(***************************************************************************)
(* OrganismLoader.  The loader is [ecosystem, order, log]: the dict, its   *)
(* insertion order (the order Python iterates a dict in) and the logger's  *)
(* output since the running call of the platform began, one record per     *)
(* notice.                                                                 *)
(***************************************************************************)
Notice(channel, event, subject) ==
    [channel |-> channel, event |-> event, subject |-> subject]

generate_genesis_hash(content) == Sha256Hex16[content]

check_lambda_symmetry(organism) == RGe(organism.coherence, COHERENCE_MIN)

\* organism.ccce.lambda_val = organism.coherence; organism.ccce.compute_xi()
Mirror(o) ==
    [o EXCEPT !.ccce = CCCEState_compute_xi([o.ccce EXCEPT !.lambda_val = o.coherence])]

symmetrize(organism) ==
    Mirror([organism EXCEPT !.coherence = RDiv(RAdd(organism.coherence, COHERENCE_MIN), Two)])

\* load_organism from "Check symmetry" on: the loader after the (repaired)
\* organism is registered under its hash
Register(loader, organism) ==
    [ecosystem |->
        [h \in DOMAIN loader.ecosystem \cup {organism.genesis_hash} |->
            IF h = organism.genesis_hash
            THEN (IF check_lambda_symmetry(organism) THEN organism
                  ELSE symmetrize(organism))
            ELSE loader.ecosystem[h]],
     order |-> IF organism.genesis_hash \in DOMAIN loader.ecosystem
               THEN loader.order
               ELSE Append(loader.order, organism.genesis_hash),
     log |-> Append(IF check_lambda_symmetry(organism) THEN loader.log
                    ELSE Append(loader.log,
                                Notice("aura", "Organism not symmetric",
                                       organism.organism_id)),
                    Notice("platform", "Loaded organism", organism.organism_id))]

\* OrganismLoader.load_organism: the loader afterwards, and whether an
\* organism (rather than None) is returned
load_organism(loader, file) ==
    IF file.kind = "missing"
    THEN [loader |-> [loader EXCEPT !.log =
                        Append(@, Notice("aiden", "Organism file not found", file.name))],
          returned |-> FALSE]
    ELSE IF file.kind = "unreadable"
    THEN [loader |-> [loader EXCEPT !.log =
                        Append(@, Notice("aiden", "Failed to load organism", file.name))],
          returned |-> FALSE]
    ELSE [loader |-> Register(loader,
                              OrganismState(file.name,
                                            generate_genesis_hash(file.content))),
          returned |-> TRUE]

RECURSIVE SumCoherence(_, _)
SumCoherence(eco, keys) ==
    IF keys = <<>> THEN RZero
    ELSE RAdd(eco[Head(keys)].coherence, SumCoherence(eco, Tail(keys)))

\* OrganismLoader.compute_ecosystem_lambda
compute_ecosystem_lambda(loader) ==
    IF loader.order = <<>> THEN RZero
    ELSE RDiv(SumCoherence(loader.ecosystem, loader.order),
              R(Len(loader.order), 1))

\* a variant of Pull that snaps the coherence to the mean at once
Pull_Snap(organism, lambda_total) ==
    Mirror([organism EXCEPT !.coherence = lambda_total])

\* a variant of Pull that also sets the lock angle to its target
Pull_Lock(organism, lambda_total) ==
    Mirror([organism EXCEPT
              !.coherence = RSub(organism.coherence,
                                 RMul(Tenth, RSub(organism.coherence, lambda_total))),
              !.ccce.theta_val = THETA_LOCK])

\* the loop body of enforce_ecosystem_symmetry
Pull(organism, lambda_total) ==
    Mirror([organism EXCEPT !.coherence =
              RSub(organism.coherence,
                   RMul(Tenth, RSub(organism.coherence, lambda_total)))])

PullAll(eco, lambda_total) ==
    [h \in DOMAIN eco |-> Pull(eco[h], lambda_total)]

\* OrganismLoader.enforce_ecosystem_symmetry: the ecosystem afterwards;
\* lambda_total is computed once, before the loop
enforce_ecosystem_symmetry(loader) ==
    PullAll(loader.ecosystem, compute_ecosystem_lambda(loader))

(***************************************************************************)
(* UnifiedPlatform: the state of one platform object and its operations.   *)
(* The program is single-threaded: evolve_ecosystem runs from pc = "step"  *)
(* to pc = "end" with no other operation in between.                       *)
(***************************************************************************)
VARIABLES
    ecosystem,       \* loader.ecosystem: genesis_hash -> organism
    order,           \* insertion order of loader.ecosystem
    log,             \* what the logger wrote in the call running or last finished
    corrections,     \* ccce.corrections
    platform_state,  \* organisms_loaded, quantum_jobs_analyzed, ccce_xi, mode
    pc,              \* "idle", or the position inside evolve_ecosystem
    iterations,      \* the argument of the running evolve_ecosystem call
    i,               \* its loop variable
    pending,         \* what its inner for loop has still to visit
    stepped,         \* evolve_step calls per organism made by that call
    normalized,      \* enforce_ecosystem_symmetry calls made by that call
    report,          \* <<r>> right after generate_platform_report returned r
    dna_files,       \* the glob result of load_organisms, while that call is the last one begun
    loads,           \* calls of load_organisms so far
    evolves          \* calls of evolve_ecosystem so far

vars == <<ecosystem, order, log, corrections, platform_state, pc, iterations,
          i, pending, stepped, normalized, report, dna_files, loads, evolves>>

Loader == [ecosystem |-> ecosystem, order |-> order, log |-> log]

\* UnifiedPlatform.__init__
InitPlatformState ==
    [organisms_loaded |-> 0, quantum_jobs_analyzed |-> 0,
     ccce_xi |-> RZero, mode |-> "INITIALIZING"]

InitControl ==
    /\ log = <<>>
    /\ corrections = 0
    /\ platform_state = InitPlatformState
    /\ pc = "idle"
    /\ iterations = 0
    /\ i = 0
    /\ pending = <<>>
    /\ normalized = 0
    /\ report = <<>>
    /\ dna_files = <<>>
    /\ loads = 0
    /\ evolves = 0

\* a platform right after construction: an empty registry
Init ==
    /\ ecosystem = << >>
    /\ order = <<>>
    /\ stepped = << >>
    /\ InitControl

\* the body of the for loop of load_organisms: r is what load_organism
\* returned
Counted(acc, r) ==
    [loader |-> r.loader,
     organisms_loaded |-> acc.organisms_loaded + (IF r.returned THEN 1 ELSE 0)]

\* a variant of LoadEach that gives up at the first file load_organism
\* returns None for
RECURSIVE LoadEach_Abort(_, _)
LoadEach_Abort(acc, listing) ==
    IF listing = <<>> THEN acc
    ELSE IF Head(listing).kind # "ok"
    THEN Counted(acc, load_organism(acc.loader, Head(listing)))
    ELSE LoadEach_Abort(Counted(acc, load_organism(acc.loader, Head(listing))),
                        Tail(listing))

\* the for loop of load_organisms over the listing; acc is the loader and
\* platform_state["organisms_loaded"]
RECURSIVE LoadEach(_, _)
LoadEach(acc, listing) ==
    IF listing = <<>> THEN acc
    ELSE LoadEach(Counted(acc, load_organism(acc.loader, Head(listing))),
                  Tail(listing))

LoadCommit(acc) ==
    /\ ecosystem' = acc.loader.ecosystem
    /\ order' = acc.loader.order
    /\ log' = Append(acc.loader.log,
                     Notice("platform", "Loaded organisms",
                            ToString(acc.organisms_loaded)))
    /\ platform_state' =
         [platform_state EXCEPT !.organisms_loaded = acc.organisms_loaded]

\* UnifiedPlatform.load_organisms
LoadOrganisms(listing) ==
    /\ pc = "idle"
    /\ loads < MaxLoads
    /\ LoadCommit(LoadEach(
          [loader |-> [Loader EXCEPT !.log =
                         <<Notice("platform", "Loading organisms", "")>>],
           organisms_loaded |-> platform_state.organisms_loaded],
          listing))
    /\ dna_files' = listing
    /\ loads' = loads + 1
    /\ report' = <<>>
    /\ UNCHANGED <<corrections, pc, iterations, i, pending, stepped,
                   normalized, evolves>>

\* evolve_ecosystem(n), up to the first test of the outer loop
EvolveBegin(n) ==
    /\ pc = "idle"
    /\ evolves < MaxEvolves
    /\ log' = <<Notice("ccce", "Evolving ecosystem", ToString(n))>>
    /\ iterations' = n
    /\ i' = 0
    /\ pending' = IF n > 0 THEN order ELSE <<>>
    /\ pc' = IF n > 0 THEN "step" ELSE "end"
    /\ stepped' = [h \in DOMAIN ecosystem |-> 0]
    /\ normalized' = 0
    /\ evolves' = evolves + 1
    /\ report' = <<>>
    /\ dna_files' = <<>>
    /\ UNCHANGED <<ecosystem, order, corrections, platform_state, loads>>

StepCommit(genesis_hash, r) ==
    /\ ecosystem' = [ecosystem EXCEPT ![genesis_hash] = r.organism]
    /\ corrections' = r.corrections
    /\ stepped' = [stepped EXCEPT ![genesis_hash] = @ + 1]

\* one pass of the inner loop: evolve_step on the next organism
EvolveStep ==
    /\ pc = "step"
    /\ pending # <<>>
    /\ StepCommit(Head(pending),
                  evolve_step(corrections, ecosystem[Head(pending)], DefaultDt))
    /\ pending' = Tail(pending)
    /\ UNCHANGED <<order, log, platform_state, pc, iterations, i, normalized,
                   report, dna_files, loads, evolves>>

RECURSIVE SumXi(_, _)
SumXi(eco, keys) ==
    IF keys = <<>> THEN RZero
    ELSE RAdd(eco[Head(keys)].ccce.xi_val, SumXi(eco, Tail(keys)))

\* sum(o.ccce.xi_val ...) / max(1, len(ecosystem))
AverageXi(eco, keys) ==
    RDiv(SumXi(eco, keys), R(IF Len(keys) > 1 THEN Len(keys) ELSE 1, 1))

\* a variant of EvolveNormalize that does not wait for the inner loop: the
\* normalization inside the loop over the organisms
EvolveNormalize_Inside ==
    /\ pc = "step"
    /\ ecosystem' = enforce_ecosystem_symmetry(Loader)
    /\ normalized' = normalized + 1
    /\ platform_state' =
         [platform_state EXCEPT !.ccce_xi = AverageXi(ecosystem', order)]
    /\ i' = i + 1
    /\ pending' = IF i + 1 < iterations THEN order ELSE <<>>
    /\ pc' = IF i + 1 < iterations THEN "step" ELSE "end"
    /\ UNCHANGED <<order, log, corrections, iterations, stepped, report,
                   dna_files, loads, evolves>>

\* the rest of one outer iteration, after the inner loop is exhausted
EvolveNormalize ==
    /\ pc = "step"
    /\ pending = <<>>
    /\ ecosystem' = enforce_ecosystem_symmetry(Loader)
    /\ normalized' = normalized + 1
    /\ platform_state' =
         [platform_state EXCEPT !.ccce_xi = AverageXi(ecosystem', order)]
    /\ i' = i + 1
    /\ pending' = IF i + 1 < iterations THEN order ELSE <<>>
    /\ pc' = IF i + 1 < iterations THEN "step" ELSE "end"
    /\ UNCHANGED <<order, log, corrections, iterations, stepped, report,
                   dna_files, loads, evolves>>

\* evolve_ecosystem after its outer loop
EvolveEnd ==
    /\ pc = "end"
    /\ platform_state' = [platform_state EXCEPT !.mode = "EVOLVED"]
    /\ log' = Append(log, Notice("ccce", "Evolution complete", ""))
    /\ pc' = "idle"
    /\ UNCHANGED <<ecosystem, order, corrections, iterations, i, pending,
                   stepped, normalized, report, dna_files, loads, evolves>>

to_vector(crsm) == <<crsm.x, crsm.y, crsm.z, crsm.t, crsm.phi, crsm.sigma>>

\* one entry of report["organisms"]
ReportEntry(genesis_hash, organism) ==
    [id |-> organism.organism_id,
     genesis_hash |-> genesis_hash,
     generation |-> organism.generation,
     coherence |-> organism.coherence,
     consciousness_phi |-> organism.consciousness_phi,
     entropy |-> organism.entropy,
     qbytes |-> organism.qbytes,
     ccce_xi |-> organism.ccce.xi_val,
     theta |-> organism.ccce.theta_val,
     crsm_6d |-> to_vector(organism.crsm)]

\* the value generate_platform_report returns (clock readings and the
\* table of constants left out)
PlatformReport ==
    [mode |-> platform_state.mode,
     ecosystem |->
        [organisms_loaded |-> platform_state.organisms_loaded,
         ecosystem_lambda |-> compute_ecosystem_lambda(Loader),
         ccce_xi |-> platform_state.ccce_xi,
         phase_conjugate_corrections |-> corrections],
     jobs_analyzed |-> platform_state.quantum_jobs_analyzed,
     organisms |->
        [k \in 1..Len(order) |-> ReportEntry(order[k], ecosystem[order[k]])]]

\* UnifiedPlatform.generate_platform_report
GenerateReport ==
    /\ pc = "idle"
    /\ report = <<>>
    /\ report' = <<PlatformReport>>
    /\ UNCHANGED <<ecosystem, order, log, corrections, platform_state, pc,
                   iterations, i, pending, stepped, normalized, dna_files, loads,
                   evolves>>

(***************************************************************************)
(* A second starting point, for the properties of the update rules on      *)
(* arbitrary organisms: a registry holding organisms built with fields     *)
(* other than the defaults (OrganismState(..., coherence=c, entropy=e),    *)
(* as a unit test builds them), keyed by the two hashes of Sha256Hex16.    *)
(***************************************************************************)
UnitCoherence == {R(1, 2), NineTenths, R(19, 20)}
UnitEntropy   == {RZero, R(1, 20), Tenth, R(1, 2)}

\* OrganismState(organism_id, genesis_hash, coherence=c, entropy=e)
UnitOrganism(organism_id, genesis_hash, c, e) ==
    [OrganismState(organism_id, genesis_hash) EXCEPT !.coherence = c, !.entropy = e]

\* a second organism, whose lock angle is off the target and whose
\* consciousness is already 0
UnitPeer ==
    [UnitOrganism("p", Sha256Hex16["ORGANISM beta"], One, R(1, 2)) EXCEPT
        !.consciousness_phi = RZero,
        !.ccce.theta_val = R(50, 1)]

InitUnit ==
    /\ \E c \in UnitCoherence, e \in UnitEntropy :
         ecosystem = [h \in {Sha256Hex16["ORGANISM alpha"], Sha256Hex16["ORGANISM beta"]} |->
                        IF h = Sha256Hex16["ORGANISM alpha"]
                        THEN UnitOrganism("u", h, c, e)
                        ELSE UnitPeer]
    /\ order = <<Sha256Hex16["ORGANISM alpha"], Sha256Hex16["ORGANISM beta"]>>
    /\ stepped = [h \in {Sha256Hex16["ORGANISM alpha"], Sha256Hex16["ORGANISM beta"]} |-> 0]
    /\ InitControl

Next ==
    \/ \E listing \in Listings : LoadOrganisms(listing)
    \/ \E n \in 0..MaxIter : EvolveBegin(n)
    \/ EvolveStep
    \/ EvolveNormalize
    \/ EvolveEnd
    \/ GenerateReport

Spec == Init /\ [][Next]_vars

SpecUnit == InitUnit /\ [][Next]_vars

(***************************************************************************)
(* Properties.  An organism is addressed by the hash that keys it; the     *)
(* operation a step of the model performs is read off the state: an        *)
(* evolve_step call on h is the step taken when Stepping(h) holds, a       *)
(* normalization is the step that advances normalized, a load_organisms    *)
(* call the step that advances loads.                                      *)
(***************************************************************************)
Stepping(h) == pc = "step" /\ pending # <<>> /\ Head(pending) = h

Visited(h) == \A k \in 1..Len(pending) : pending[k] # h

RECURSIVE SumOver(_, _)
SumOver(eco, S) ==
    IF S = {} THEN RZero
    ELSE RAdd(eco[CHOOSE h \in S : TRUE].coherence,
              SumOver(eco, S \ {CHOOSE h \in S : TRUE}))

TotalCoherence(eco) == SumOver(eco, DOMAIN eco)

MeanCoherence(eco) ==
    RDiv(TotalCoherence(eco), R(Cardinality(DOMAIN eco), 1))

\* C1: while evolve_ecosystem(N) runs, the normalizations done are exactly
\* the iterations completed, and every organism of the registry has been
\* stepped once per completed iteration plus once more if the running
\* iteration has visited it already; when the loop is over, every organism
\* has had N steps and N normalizations have run.
C1_StepsThenNormalization ==
    /\ pc \in {"step", "end"} => DOMAIN stepped = DOMAIN ecosystem
    /\ pc = "step" =>
         /\ i < iterations
         /\ normalized = i
         /\ \A h \in DOMAIN ecosystem :
              stepped[h] = i + (IF Visited(h) THEN 1 ELSE 0)
    /\ pc = "end" =>
         /\ normalized = iterations
         /\ \A h \in DOMAIN ecosystem : stepped[h] = iterations

\* two organisms, two iterations, the loop just over
C1_Witness ==
    /\ pc = "end"
    /\ iterations = 2
    /\ Len(order) = 2
    /\ normalized = 2
    /\ \A h \in DOMAIN ecosystem : stepped[h] = 2 /\ ecosystem[h].generation = 2

\* C2: an evolve_step call raises the generation of its organism by exactly
\* 1; no other step of the platform changes the generation of an organism
\* (a load_organisms call may put a new organism, of generation 0, under a
\* hash).
C2_GenerationCountsSteps ==
    [][\A h \in DOMAIN ecosystem \cap DOMAIN ecosystem' :
          IF Stepping(h)
          THEN ecosystem'[h].generation = ecosystem[h].generation + 1
          ELSE IF loads' = loads
          THEN ecosystem'[h].generation = ecosystem[h].generation
          ELSE ecosystem'[h].generation \in {ecosystem[h].generation, 0}]_vars

\* an organism built with entropy 0.05, stepped twice
C2_Witness ==
    \E h \in DOMAIN ecosystem :
        /\ ecosystem[h].organism_id = "u"
        /\ ecosystem[h].generation = 2
        /\ ecosystem[h].entropy = R(1, 20)

\* C3: an evolve_step call on an organism of entropy e leaves the entropy
\* as it is when e <= 0.1 and makes it |e - 1/e| when e > 0.1; the entropy
\* after the call is not negative.
C3_EntropyGate ==
    [][\A h \in DOMAIN ecosystem :
          Stepping(h) =>
             /\ ecosystem'[h].entropy =
                  IF RLe(ecosystem[h].entropy, Tenth)
                  THEN ecosystem[h].entropy
                  ELSE RAbs(RSub(ecosystem[h].entropy,
                                 RDiv(One, ecosystem[h].entropy)))
             /\ RGe(ecosystem'[h].entropy, RZero)]_vars

\* after one step each: entropy 0.1 is still 0.1, entropy 0.5 has become 1.5
C3_Witness ==
    \E g, h \in DOMAIN ecosystem :
        /\ ecosystem[g].organism_id = "u"
        /\ ecosystem[g].generation = 1
        /\ ecosystem[g].entropy = Tenth
        /\ ecosystem[h].organism_id = "p"
        /\ ecosystem[h].generation = 1
        /\ ecosystem[h].entropy = R(3, 2)

\* C4: the engine's corrections counter is 0 at the start; an evolve_step
\* call on an organism whose entropy exceeds 0.1 raises it by exactly 1, and
\* every other step of the platform leaves it as it is.
C4_CorrectionCount ==
    /\ corrections = 0
    /\ [][corrections' = corrections +
            (IF \E h \in DOMAIN ecosystem :
                   Stepping(h) /\ RGt(ecosystem[h].entropy, Tenth)
             THEN 1 ELSE 0)]_vars

\* four steps made, two of them on entropy 0.05: two corrections counted
C4_Witness ==
    /\ pc = "end"
    /\ corrections = 2
    /\ \E g, h \in DOMAIN ecosystem :
         /\ ecosystem[g].organism_id = "u"
         /\ ecosystem[g].generation = 2
         /\ ecosystem[g].entropy = R(1, 20)
         /\ ecosystem[h].organism_id = "p"
         /\ ecosystem[h].generation = 2

\* C5: an evolve_step call on an organism of coherence c adds exactly
\* c * LAMBDA_PHI * 1e7 to its qbytes when c > 0.9 and leaves qbytes as it
\* is when c <= 0.9; no step of the platform lowers the qbytes of an
\* organism (a load_organisms call may put a new organism, of generation 0,
\* under a hash).
C5_YieldGate ==
    [][\A h \in DOMAIN ecosystem \cap DOMAIN ecosystem' :
          /\ Stepping(h) =>
               ecosystem'[h].qbytes =
                  IF RGt(ecosystem[h].coherence, NineTenths)
                  THEN RAdd(ecosystem[h].qbytes,
                            RMul(RMul(ecosystem[h].coherence, LAMBDA_PHI), Ten7))
                  ELSE ecosystem[h].qbytes
          /\ \/ RGe(ecosystem'[h].qbytes, ecosystem[h].qbytes)
             \/ loads' # loads /\ ecosystem'[h].generation = 0]_vars

\* coherence 0.95, one step made, no normalization yet
C5_Witness ==
    /\ pc = "step"
    /\ normalized = 0
    /\ \E h \in DOMAIN ecosystem :
         /\ ecosystem[h].coherence = R(19, 20)
         /\ ecosystem[h].generation = 1
         /\ ecosystem[h].qbytes = RMul(RMul(R(19, 20), LAMBDA_PHI), Ten7)

\* C6: a normalization leaves every organism with nine tenths of its gap
\* to the mean coherence of the registry before the call:
\* new coherence - mean = 0.9 * (old coherence - mean).
C6_GapShrinksByTenth ==
    [][normalized' = normalized + 1 =>
          \A h \in DOMAIN ecosystem :
             RSub(ecosystem'[h].coherence, MeanCoherence(ecosystem)) =
             RMul(NineTenths,
                  RSub(ecosystem[h].coherence, MeanCoherence(ecosystem)))]_vars

\* coherences 0.5 and 1.0 after one normalization: 0.525 and 0.975
C6_Witness ==
    /\ normalized = 1
    /\ \E g, h \in DOMAIN ecosystem :
         /\ ecosystem[g].organism_id = "u"
         /\ ecosystem[g].coherence = R(21, 40)
         /\ ecosystem[h].organism_id = "p"
         /\ ecosystem[h].coherence = R(39, 40)

\* C7: no step of the platform other than a load_organisms call changes
\* the sum of the coherences of the registry, nor the set of its organisms;
\* an evolve_step call leaves the coherence of its organism as it is.
C7_CoherenceConserved ==
    [][loads' = loads =>
          /\ DOMAIN ecosystem' = DOMAIN ecosystem
          /\ TotalCoherence(ecosystem') = TotalCoherence(ecosystem)
          /\ \A h \in DOMAIN ecosystem :
                Stepping(h) => ecosystem'[h].coherence = ecosystem[h].coherence]_vars

\* coherences 0.5 and 1.0 after two iterations: 0.5475 and 0.9525, still
\* 1.5 together
C7_Witness ==
    /\ pc = "end"
    /\ normalized = 2
    /\ \E g, h \in DOMAIN ecosystem :
         /\ ecosystem[g].coherence = R(219, 400)
         /\ ecosystem[h].coherence = R(381, 400)
         /\ RAdd(ecosystem[g].coherence, ecosystem[h].coherence) = R(3, 2)

\* the metric of the three convergence fields an organism holds now
FreshXi(o) == compute_xi(o.ccce.lambda_val, o.ccce.phi_val, o.ccce.gamma_val)

\* C8: where xi_val is read, it is the metric of the organism's current
\* convergence fields: the ccce_xi entries of a report just generated, and
\* the average stored in platform_state by an iteration just completed.
C8_XiNeverStale ==
    /\ report # <<>> =>
         \A k \in 1..Len(order) :
            report[1].organisms[k].ccce_xi = FreshXi(ecosystem[order[k]])
    /\ (normalized > 0 /\ (pc = "end" \/ (pc = "step" /\ pending = order))) =>
         \A h \in DOMAIN ecosystem : ecosystem[h].ccce.xi_val = FreshXi(ecosystem[h])

\* a report generated right after admission: the entry reads 0.0 where the
\* metric of the fields is 0.97 * 7.6901 / 0.001
C8_StaleAfterAdmission ==
    /\ report # <<>>
    /\ platform_state.mode = "INITIALIZING"
    /\ \E k \in 1..Len(order) :
         /\ report[1].organisms[k].generation = 0
         /\ report[1].organisms[k].ccce_xi = RZero
         /\ FreshXi(ecosystem[order[k]]) = R(7459397, 1000)

\* C9: after a load_organisms call, every file that could not be read has
\* its failure notice in the log and is not counted, the registry holds
\* what it held before plus the organisms of the files that could be read
\* (those listed after a failing file included), every other entry is as it
\* was, and the call has run to its closing notice.
C9_FailedAdmission ==
    [][loads' = loads + 1 =>
          LET failed == {k \in 1..Len(dna_files') : dna_files'[k].kind # "ok"}
              read   == {k \in 1..Len(dna_files') : dna_files'[k].kind = "ok"}
              hashes == {Sha256Hex16[dna_files'[k].content] : k \in read}
          IN  /\ \A k \in failed :
                    \E j \in 1..Len(log') :
                       /\ log'[j].channel = "aiden"
                       /\ log'[j].subject = dna_files'[k].name
              /\ DOMAIN ecosystem' = DOMAIN ecosystem \cup hashes
              /\ \A h \in DOMAIN ecosystem \ hashes : ecosystem'[h] = ecosystem[h]
              /\ platform_state'.organisms_loaded =
                    platform_state.organisms_loaded + Cardinality(read)
              /\ (read = {} => ecosystem' = ecosystem /\ order' = order)
              /\ log'[Len(log')].event = "Loaded organisms"]_vars

\* a missing file listed first, a readable one after it: the failure is
\* logged, the readable one is admitted and counted
C9_Witness ==
    /\ Len(dna_files) = 2
    /\ dna_files[1].kind = "missing"
    /\ dna_files[2].kind = "ok"
    /\ Sha256Hex16[dna_files[2].content] \in DOMAIN ecosystem
    /\ platform_state.organisms_loaded = 1
    /\ \E j \in 1..Len(log) :
         log[j].channel = "aiden" /\ log[j].subject = dna_files[1].name

\* C10: when load_organisms admits a file whose hash already keys an entry
\* (one held before the call, or one admitted earlier in it), the entry
\* becomes the organism newly created from the last such file, the registry
\* gains no entry for it, the other entries are as they were, and the log
\* holds a notice about that file besides the usual "Loaded organism".
C10_CollisionReported ==
    [][loads' = loads + 1 =>
          \A k \in 1..Len(dna_files') :
             LET f == dna_files'[k]
                 h == Sha256Hex16[f.content]
                 later == {m \in (k + 1)..Len(dna_files') :
                             /\ dna_files'[m].kind = "ok"
                             /\ dna_files'[m].content = f.content}
                 collides ==
                     \/ h \in DOMAIN ecosystem
                     \/ \E m \in 1..(k - 1) :
                           /\ dna_files'[m].kind = "ok"
                           /\ dna_files'[m].content = f.content
             IN  (f.kind = "ok" /\ collides) =>
                    /\ later = {} => ecosystem'[h] = OrganismState(f.name, h)
                    /\ Cardinality(DOMAIN ecosystem') =
                          Cardinality(DOMAIN ecosystem \cup
                             {Sha256Hex16[dna_files'[m].content] :
                                m \in {n \in 1..Len(dna_files') :
                                         dna_files'[n].kind = "ok"}})
                    /\ \A g \in DOMAIN ecosystem \ {h} :
                          (\A m \in 1..Len(dna_files') :
                              dna_files'[m].kind = "ok" =>
                                 Sha256Hex16[dna_files'[m].content] # g)
                          => ecosystem'[g] = ecosystem[g]
                    /\ \E j \in 1..Len(log') :
                          /\ log'[j].subject = f.name
                          /\ log'[j].event # "Loaded organism"]_vars

\* two files of the same content in one listing: one entry, that of the
\* second file, both counted as loaded, and two notices in between the
\* opening and the closing one
C10_SilentReplacement ==
    /\ Len(dna_files) = 2
    /\ dna_files[1].kind = "ok"
    /\ dna_files[2].kind = "ok"
    /\ dna_files[1].content = dna_files[2].content
    /\ Len(order) = 1
    /\ ecosystem[order[1]].organism_id = dna_files[2].name
    /\ platform_state.organisms_loaded = 2
    /\ Len(log) = 4
    /\ \A j \in 2..3 : log[j].event = "Loaded organism"

\* C11: the count of loaded organisms the report shows is the number of
\* entries of the registry, in every state.
C11_CountIsRegistrySize ==
    platform_state.organisms_loaded = Cardinality(DOMAIN ecosystem)

\* two load_organisms results the count gets wrong: two files of one
\* content, counted twice for one entry
C11_CountedTwice ==
    /\ pc = "idle"
    /\ Cardinality(DOMAIN ecosystem) = 1
    /\ platform_state.organisms_loaded = 2
    /\ report # <<>>
    /\ report[1].ecosystem.organisms_loaded = 2
    /\ Len(report[1].organisms) = 1

\* C12: every organism admitted with the default fields keeps entropy 0.03
\* and never makes the engine count a correction, however many steps it
\* has had; inside the first evolve_ecosystem call its generation is the
\* number of evolve_step calls made on it.
C12_DefaultEntityEndToEnd ==
    /\ corrections = 0
    /\ \A h \in DOMAIN ecosystem :
          /\ ecosystem[h].entropy = R(3, 100)
          /\ ecosystem[h].coherence = R(97, 100)
          /\ (evolves = 1 /\ pc \in {"step", "end"}) =>
                ecosystem[h].generation = stepped[h]

\* one default organism after two steps with dt = 0.1
C12_Witness ==
    /\ pc = "end"
    /\ Len(order) = 1
    /\ stepped[order[1]] = 2
    /\ ecosystem[order[1]].generation = 2
    /\ ecosystem[order[1]].entropy = R(3, 100)
    /\ ecosystem[order[1]].crsm.t = R(2, 10)
    /\ corrections = 0

\* C13: an evolve_step call leaves its organism with consciousness_phi =
\* max(0, LAMBDA_PHI * old consciousness_phi - 0.01 * entropy), the entropy
\* being the one the organism had when the call began, and that is never
\* negative; an organism whose consciousness_phi is 0 still has 0 after any
\* evolve_step call and any normalization.
C13_ConsciousnessFloor ==
    [][\A h \in DOMAIN ecosystem :
          /\ Stepping(h) =>
               /\ RGe(ecosystem'[h].consciousness_phi, RZero)
               /\ LET phi_new == RSub(RMul(LAMBDA_PHI, ecosystem[h].consciousness_phi),
                                      RMul(Hundredth, ecosystem[h].entropy))
                  IN  ecosystem'[h].consciousness_phi =
                         (IF RLt(phi_new, RZero) THEN RZero ELSE phi_new)
          /\ (loads' = loads /\ ecosystem[h].consciousness_phi = RZero) =>
               ecosystem'[h].consciousness_phi = RZero]_vars

\* after two iterations: the organism built with entropy 0 holds
\* LAMBDA_PHI^2 * 7.6901, above the floor, and the one that began at 0 is
\* still at 0
C13_Witness ==
    /\ pc = "end"
    /\ normalized = 2
    /\ \E g, h \in DOMAIN ecosystem :
         /\ ecosystem[g].organism_id = "u"
         /\ ecosystem[g].generation = 2
         /\ ecosystem[g].consciousness_phi =
               RMul(LAMBDA_PHI, RMul(LAMBDA_PHI, R(76901, 10000)))
         /\ ecosystem[h].organism_id = "p"
         /\ ecosystem[h].generation = 2
         /\ ecosystem[h].consciousness_phi = RZero

\* C14: a normalization writes, of every organism, only coherence,
\* ccce.lambda_val (the new coherence) and ccce.xi_val (the metric of the
\* fields as they then are); every other field of every organism, the keys
\* of the registry and their order, and the corrections counter are as
\* before, ccce.phi_val and ccce.gamma_val included.
C14_NormalizationFrame ==
    [][normalized' = normalized + 1 =>
          /\ DOMAIN ecosystem' = DOMAIN ecosystem
          /\ order' = order
          /\ corrections' = corrections
          /\ \A h \in DOMAIN ecosystem :
                /\ [ecosystem'[h] EXCEPT
                      !.coherence = ecosystem[h].coherence,
                      !.ccce.lambda_val = ecosystem[h].ccce.lambda_val,
                      !.ccce.xi_val = ecosystem[h].ccce.xi_val] = ecosystem[h]
                /\ ecosystem'[h].ccce.lambda_val = ecosystem'[h].coherence
                /\ ecosystem'[h].ccce.xi_val = FreshXi(ecosystem'[h])
                /\ ecosystem'[h].ccce.phi_val = ecosystem[h].ccce.phi_val
                /\ ecosystem'[h].ccce.gamma_val = ecosystem[h].ccce.gamma_val]_vars

\* after one iteration: the organism whose lock angle began at 50 is at
\* 50.1843, where its step left it, its entropy at 1.5, its coherence moved
\* off 1.0 and mirrored
C14_Witness ==
    /\ pc = "end"
    /\ normalized = 1
    /\ \E h \in DOMAIN ecosystem :
         /\ ecosystem[h].organism_id = "p"
         /\ ecosystem[h].generation = 1
         /\ ecosystem[h].entropy = R(3, 2)
         /\ ecosystem[h].ccce.theta_val = R(501843, 10000)
         /\ ecosystem[h].coherence # One
         /\ ecosystem[h].ccce.lambda_val = ecosystem[h].coherence

\* the registry and the corrections counter after evolve_step has been
\* called on the organisms under keys, in that order
StepOne(st, h) ==
    Then(evolve_step(st.corrections, st.ecosystem[h], DefaultDt), LAMBDA r :
         [ecosystem |-> [st.ecosystem EXCEPT ![h] = r.organism],
          corrections |-> r.corrections])

RECURSIVE StepAll(_, _)
StepAll(st, keys) ==
    IF keys = <<>> THEN st
    ELSE Then(StepOne(st, Head(keys)), LAMBDA next : StepAll(next, Tail(keys)))

\* the orders the organisms of the registry can be visited in
VisitOrders ==
    {q \in [1..Len(order) -> DOMAIN ecosystem] :
        \A j, k \in 1..Len(order) : j # k => q[j] # q[k]}

\* C15: at the start of every iteration, stepping the organisms of the
\* registry in any order leaves the same organisms and the same corrections
\* counter as stepping them in the order evolve_ecosystem uses.
C15_StepOrderIrrelevant ==
    (pc = "step" /\ pending = order) =>
        \A q \in VisitOrders :
           StepAll([ecosystem |-> ecosystem, corrections |-> corrections], q) =
           StepAll([ecosystem |-> ecosystem, corrections |-> corrections], order)

\* the second iteration about to start on two organisms that are both due
\* a correction, two corrections counted in the first
C15_Witness ==
    /\ pc = "step"
    /\ i = 1
    /\ pending = order
    /\ Len(order) = 2
    /\ corrections = 2
    /\ \A h \in DOMAIN ecosystem :
          RGt(ecosystem[h].entropy, Tenth) /\ ecosystem[h].generation = 1
    /\ ecosystem[order[1]].coherence # ecosystem[order[2]].coherence

\* C16: an organism admitted with the default fields that has had at least
\* one step has consciousness_phi 0, entropy 0.03 and xi_val 0, its lock
\* angle is THETA_LOCK, and is_stable is false of it.
C16_DefaultNeverStable ==
    \A h \in DOMAIN ecosystem :
       ecosystem[h].generation >= 1 =>
          /\ ecosystem[h].consciousness_phi = RZero
          /\ ecosystem[h].entropy = R(3, 100)
          /\ ecosystem[h].ccce.xi_val = RZero
          /\ ecosystem[h].ccce.theta_val = THETA_LOCK
          /\ ~is_stable(ecosystem[h].ccce)

\* evolve_ecosystem(2) has returned on a registry of two default organisms
C16_Witness ==
    /\ pc = "idle"
    /\ platform_state.mode = "EVOLVED"
    /\ platform_state.ccce_xi = RZero
    /\ Len(order) = 2
    /\ \A h \in DOMAIN ecosystem :
          /\ ecosystem[h].generation = 2
          /\ ecosystem[h].ccce.phi_val = RZero
          /\ ecosystem[h].ccce.gamma_val = R(3, 100)
          /\ ~is_stable(ecosystem[h].ccce)

====
